---- MODULE Spec2Model ----
(***************************************************************************)
(* The grammar-correction endpoint of English_Tutor/Back:                  *)
(* GrammarCorrector.correct_grammar (grammar_corrector.py) behind the      *)
(* POST /correct handler (main.py).                                        *)
(*                                                                         *)
(* A Python str is modelled as a sequence of one-character strings, so     *)
(* that lower(), strip(), split(), re.search and re.sub are computed       *)
(* character by character as the interpreter computes them.  The model's   *)
(* alphabet is ASCII.  Confidences are in hundredths (0.95 is 95).  The    *)
(* emoji that end the "already correct" phrases are left out of the       *)
(* phrase strings; every phrase stays distinct without them.               *)
(*                                                                         *)
(* Where a computed string is read many times it is first bound by a       *)
(* quantifier over its singleton set ({f(v) : v \in {e}}), which fixes its  *)
(* value once, as the assignment to a Python local does.                   *)
(***************************************************************************)
EXTENDS Integers, Sequences, FiniteSets, TLC

VARIABLES
    pc,           \* where each request is in correct_grammar
    text,         \* request.text
    difficulty,   \* request.difficulty
    result,       \* what the pipeline generated for the request
    corrected,    \* the local "corrected" of correct_grammar
    explanation,  \* the local "explanation" of correct_grammar
    response,     \* the responses returned for the request, in order
    oracleCalls,  \* how many times the pipeline was called for the request
    trace         \* the positions each request has been at, in order

vars == <<pc, text, difficulty, result, corrected, explanation, response, oracleCalls, trace>>

(***************************************************************************)
(* Characters and the str methods the corrector uses.                      *)
(***************************************************************************)
Uppers == <<"A","B","C","D","E","F","G","H","I","J","K","L","M",
            "N","O","P","Q","R","S","T","U","V","W","X","Y","Z">>
Lowers == <<"a","b","c","d","e","f","g","h","i","j","k","l","m",
            "n","o","p","q","r","s","t","u","v","w","x","y","z">>
Digits == {"0","1","2","3","4","5","6","7","8","9"}
UpperSet == {Uppers[i] : i \in DOMAIN Uppers}
LowerSet == {Lowers[i] : i \in DOMAIN Lowers}

\* str.strip() / str.split() whitespace and the regex class \s
IsSpace(c) == c \in {" ", "\t", "\n", "\r"}

\* the regex class \w: letters, digits and the underscore
IsWordChar(c) == c \in UpperSet \cup LowerSet \cup Digits \cup {"_"}

LowerChar(c) ==
    IF c \in UpperSet THEN Lowers[CHOOSE i \in DOMAIN Uppers : Uppers[i] = c]
    ELSE c

\* str.lower()
Lower(s) == [i \in DOMAIN s |-> LowerChar(s[i])]

\* str.strip()
Strip(s) ==
    LET keep == {i \in DOMAIN s : ~IsSpace(s[i])}
    IN  IF keep = {} THEN <<>>
        ELSE LET lo == CHOOSE i \in keep : \A j \in keep : i <= j
                 hi == CHOOSE i \in keep : \A j \in keep : j <= i
             IN  SubSeq(s, lo, hi)

RECURSIVE SplitFrom(_, _, _)
\* the words of s from position i on, the word being read starting at start
SplitFrom(s, i, start) ==
    LET word == IF start < i THEN {SubSeq(s, start, i - 1)} ELSE {}
    IN  IF i > Len(s) THEN word
        ELSE IF IsSpace(s[i]) THEN word \cup SplitFrom(s, i + 1, i + 1)
        ELSE SplitFrom(s, i + 1, start)

\* set(s.lower().split())
WordSet(s) == UNION {SplitFrom(low, 1, 1) : low \in {Lower(s)}}

\* re.sub(r'[^\w\s]', '', s)
RemovePunct(s) == SelectSeq(s, LAMBDA c : IsWordChar(c) \/ IsSpace(c))

\* re.search(p, s) for a pattern p of literal characters
Search(p, s) ==
    \E i \in 1..(Len(s) - Len(p) + 1) : SubSeq(s, i, i + Len(p) - 1) = p

\* the regex assertion \b before position i of s (i in 1..Len(s)+1)
WordBoundary(s, i) ==
    LET w(k) == k \in DOMAIN s /\ IsWordChar(s[k])
    IN  w(i - 1) # w(i)

\* r'\b' + p + r'\b' matches s at position i
MatchAtB(p, s, i) ==
    /\ i + Len(p) - 1 <= Len(s)
    /\ SubSeq(s, i, i + Len(p) - 1) = p
    /\ WordBoundary(s, i)
    /\ WordBoundary(s, i + Len(p))

\* re.search(r'\b' + p + r'\b', s)
SearchB(p, s) == \E i \in DOMAIN s : MatchAtB(p, s, i)

RECURSIVE SubFrom(_, _, _, _, _)
\* the substitution below from position i of s on, low being s lower-cased:
\* leftmost non-overlapping matches, the assertions read on s itself
SubFrom(p, repl, s, low, i) ==
    IF i > Len(s) THEN <<>>
    ELSE IF MatchAtB(p, low, i)
         THEN repl \o SubFrom(p, repl, s, low, i + Len(p))
         ELSE <<s[i]>> \o SubFrom(p, repl, s, low, i + 1)

\* re.sub(r'\b' + p + r'\b', repl, s, flags=re.IGNORECASE), p in lower case
ReSub(p, repl, s) ==
    CHOOSE out \in {SubFrom(p, repl, s, low, 1) : low \in {Lower(s)}} : TRUE

RECURSIVE Join(_)
\* " ".join(ws)
Join(ws) ==
    IF ws = <<>> THEN <<>>
    ELSE IF Len(ws) = 1 THEN ws[1]
    ELSE ws[1] \o <<" ">> \o Join(Tail(ws))

(***************************************************************************)
(* Words of the pattern tables and of the requests.                        *)
(***************************************************************************)
w_she == <<"s","h","e">>
w_he == <<"h","e">>
w_it == <<"i","t">>
w_i == <<"i">>
w_we == <<"w","e">>
w_dont == <<"d","o","n","'","t">>
w_doesnt == <<"d","o","e","s","n","'","t">>
w_do == <<"d","o">>
w_does == <<"d","o","e","s">>
w_go == <<"g","o">>
w_goes == <<"g","o","e","s">>
w_is == <<"i","s">>
w_am == <<"a","m">>
w_not == <<"n","o","t">>
w_that == <<"t","h","a","t">>
w_what == <<"w","h","a","t">>
w_im == <<"i","'","m">>
w_its == <<"i","t","'","s">>
w_thats == <<"t","h","a","t","'","s">>
w_whats == <<"w","h","a","t","'","s">>
w_She == <<"S","h","e">>
w_I == <<"I">>
w_like == <<"l","i","k","e">>
w_happy == <<"h","a","p","p","y">>
w_Im == <<"I","'","m">>

(***************************************************************************)
(* GrammarCorrector                                                        *)
(***************************************************************************)

\* CreateResponse with is_correct true for every status
CreateResponseAlwaysCorrect(original, corr, expl, confidence, status, diff) ==
    [original_text |-> original,
     corrected_text |-> corr,
     explanation |-> expl,
     confidence |-> confidence,
     status |-> status,
     is_correct |-> TRUE,
     suggestions |-> <<>>,
     difficulty_used |-> diff]

\* the response dictionary; suggestions is always the empty list
CreateResponse(original, corr, expl, confidence, status, diff) ==
    [original_text |-> original,
     corrected_text |-> corr,
     explanation |-> expl,
     confidence |-> confidence,
     status |-> status,
     is_correct |-> (status = "correct"),
     suggestions |-> <<>>,
     difficulty_used |-> diff]

\* TooShort without the strip()
TooShortUntrimmed(t) == Len(t) < 2

\* the input guard of correct_grammar: len(text.strip()) < 2
TooShort(t) == Len(Strip(t)) < 2

\* _similarity as the fraction <<numerator, denominator>>; 0.0 is <<0, 1>>
Similarity(text1, text2) ==
    CHOOSE sim \in
        {IF words1 = {} \/ words2 = {} THEN <<0, 1>>
         ELSE <<Cardinality(words1 \cap words2), Cardinality(words1 \cup words2)>> :
            words1 \in {WordSet(text1)}, words2 \in {WordSet(text2)}} : TRUE

\* _similarity(text1, text2) > pct / 100; the quotient of two small integers
\* and the literal are both correctly rounded, so the comparison is exact
SimilarityAbove(text1, text2, pct) ==
    \E sim \in {Similarity(text1, text2)} : sim[1] * 100 > pct * sim[2]

\* the minor_changes table: (formal, contraction)
MinorChanges ==
    << <<Join(<<w_i, w_am>>), w_im>>,
       <<Join(<<w_it, w_is>>), w_its>>,
       <<Join(<<w_that, w_is>>), w_thats>>,
       <<Join(<<w_what, w_is>>), w_whats>>,
       <<Join(<<w_do, w_not>>), w_dont>>,
       <<Join(<<w_does, w_not>>), w_doesnt>> >>

\* IsGrammarCorrect with the 0.85 of _easy_mode as its similarity threshold
IsGrammarCorrectLoose(original, corr) ==
    \E original_lower \in {Lower(original)}, corrected_lower \in {Lower(corr)} :
        \/ original_lower = corrected_lower
        \/ RemovePunct(original_lower) = RemovePunct(corrected_lower)
        \/ SimilarityAbove(original, corr, 85)
        \/ \E k \in DOMAIN MinorChanges :
              LET formal == MinorChanges[k][1]
                  contraction == MinorChanges[k][2]
              IN  \/ Search(formal, original_lower) /\ Search(contraction, corrected_lower)
                  \/ Search(contraction, original_lower) /\ Search(formal, corrected_lower)

IsGrammarCorrect(original, corr) ==
    \E original_lower \in {Lower(original)}, corrected_lower \in {Lower(corr)} :
        \/ original_lower = corrected_lower
        \/ RemovePunct(original_lower) = RemovePunct(corrected_lower)
        \/ SimilarityAbove(original, corr, 90)
        \/ \E k \in DOMAIN MinorChanges :
              LET formal == MinorChanges[k][1]
                  contraction == MinorChanges[k][2]
              IN  \/ Search(formal, original_lower) /\ Search(contraction, corrected_lower)
                  \/ Search(contraction, original_lower) /\ Search(formal, corrected_lower)

\* CorrectExplanations with the intermediate pool as the default
CorrectExplanationsDefaultPool(diff) ==
    CASE diff = "easy" ->
           {"Great! Your sentence is clear and easy to understand!",
            "Perfect for everyday conversation!",
            "Your meaning is clear - well done!",
            "Good enough for basic communication!"}
      [] diff = "advanced" ->
           {"Flawless professional English!",
            "Perfect grammar and sophisticated expression!",
            "Native-level proficiency demonstrated!",
            "Impeccable grammar and structure!"}
      [] OTHER ->
           {"Perfect grammar!",
            "Excellent writing - no errors found!",
            "Well-constructed sentence!",
            "Grammatically correct and natural!"}

\* the pool random.choice draws from in _get_correct_explanation
CorrectExplanations(diff) ==
    CASE diff = "easy" ->
           {"Great! Your sentence is clear and easy to understand!",
            "Perfect for everyday conversation!",
            "Your meaning is clear - well done!",
            "Good enough for basic communication!"}
      [] diff = "intermediate" ->
           {"Perfect grammar!",
            "Excellent writing - no errors found!",
            "Well-constructed sentence!",
            "Grammatically correct and natural!"}
      [] diff = "advanced" ->
           {"Flawless professional English!",
            "Perfect grammar and sophisticated expression!",
            "Native-level proficiency demonstrated!",
            "Impeccable grammar and structure!"}
      [] OTHER -> {"Great! No errors found!"}

\* re.search(r'\b(she|he|it) ' + verb + r'\b', s)
SearchThirdPerson(verb, s) ==
    \E p \in {Join(<<subj, verb>>) : subj \in {w_she, w_he, w_it}} : SearchB(p, s)

\* the three phrasings of one signature: easy, advanced, else
Phrase(diff, easy, advanced, other) ==
    IF diff = "easy" THEN easy
    ELSE IF diff = "advanced" THEN advanced
    ELSE other

\* one signature test of _get_accurate_explanation: he/she/it + wrong in
\* the lower-cased original and he/she/it + right in the lower-cased candidate
ThirdPersonFixed(wrong, right, original, corr) ==
    \E original_lower \in {Lower(original)}, corrected_lower \in {Lower(corr)} :
        SearchThirdPerson(wrong, original_lower) /\ SearchThirdPerson(right, corrected_lower)

\* re.search(r'\bi is\b', original_lower) and 'am' in corrected_lower
FirstPersonFixed(original, corr) ==
    \E original_lower \in {Lower(original)}, corrected_lower \in {Lower(corr)} :
        SearchB(Join(<<w_i, w_is>>), original_lower) /\ Search(w_am, corrected_lower)

\* AccurateExplanation with the "go" signature tried before the "do" one
AccurateExplanationGoFirst(original, corr, diff) ==
    IF ThirdPersonFixed(w_dont, w_doesnt, original, corr)
    THEN Phrase(diff, "Fixed the verb for clearer communication!",
                "Corrected third-person singular verb form.",
                "Use 'doesn't' with he/she/it, not 'don't'.")
    ELSE IF ThirdPersonFixed(w_go, w_goes, original, corr)
    THEN Phrase(diff, "Fixed the verb ending!",
                "Corrected third-person singular present tense.",
                "Use 'goes' with he/she/it, not 'go'.")
    ELSE IF ThirdPersonFixed(w_do, w_does, original, corr)
    THEN Phrase(diff, "Made the verb match the subject!",
                "Corrected subject-verb agreement.",
                "Use 'does' with he/she/it, not 'do'.")
    ELSE IF FirstPersonFixed(original, corr)
    THEN Phrase(diff, "Fixed the verb for 'I'!",
                "Corrected first-person verb conjugation.",
                "Use 'am' with 'I', not 'is'.")
    ELSE Phrase(diff, "Improved the sentence for better understanding!",
                "Enhanced grammar and sentence structure.",
                "Corrected grammatical errors.")

AccurateExplanation(original, corr, diff) ==
    IF ThirdPersonFixed(w_dont, w_doesnt, original, corr)
    THEN Phrase(diff, "Fixed the verb for clearer communication!",
                "Corrected third-person singular verb form.",
                "Use 'doesn't' with he/she/it, not 'don't'.")
    ELSE IF ThirdPersonFixed(w_do, w_does, original, corr)
    THEN Phrase(diff, "Made the verb match the subject!",
                "Corrected subject-verb agreement.",
                "Use 'does' with he/she/it, not 'do'.")
    ELSE IF ThirdPersonFixed(w_go, w_goes, original, corr)
    THEN Phrase(diff, "Fixed the verb ending!",
                "Corrected third-person singular present tense.",
                "Use 'goes' with he/she/it, not 'go'.")
    ELSE IF FirstPersonFixed(original, corr)
    THEN Phrase(diff, "Fixed the verb for 'I'!",
                "Corrected first-person verb conjugation.",
                "Use 'am' with 'I', not 'is'.")
    ELSE Phrase(diff, "Improved the sentence for better understanding!",
                "Enhanced grammar and sentence structure.",
                "Corrected grammatical errors.")

\* EasyMode with the 0.90 of _is_grammar_correct as its similarity threshold
EasyModeStrict(original, corr, expl) ==
    IF SimilarityAbove(original, corr, 90)
    THEN CreateResponse(original, original, "Looks good for conversation!",
                        80, "correct", "easy")
    ELSE CreateResponse(original, corr, expl, 70, "corrected", "easy")

EasyMode(original, corr, expl) ==
    IF SimilarityAbove(original, corr, 85)
    THEN CreateResponse(original, original, "Looks good for conversation!",
                        80, "correct", "easy")
    ELSE CreateResponse(original, corr, expl, 70, "corrected", "easy")

IntermediateMode(original, corr, expl) ==
    CreateResponse(original, corr, expl, 80, "corrected", "intermediate")

AdvancedMode(original, corr, expl) ==
    CreateResponse(original, corr, expl, 85, "corrected", "advanced")

\* HasErrors without the "i is" pattern
HasErrorsThirdPersonOnly(t) ==
    \E low \in {Lower(t)} :
        \/ SearchThirdPerson(w_dont, low)
        \/ SearchThirdPerson(w_do, low)
        \/ SearchThirdPerson(w_go, low)

\* any(re.search(pattern, text.lower()) for pattern in basic_errors)
HasErrors(t) ==
    \E low \in {Lower(t)} :
        \/ SearchThirdPerson(w_dont, low)
        \/ SearchThirdPerson(w_do, low)
        \/ SearchThirdPerson(w_go, low)
        \/ SearchB(Join(<<w_i, w_is>>), low)

\* the corrections dictionary, in insertion order: (wrong, right)
Corrections ==
    << <<Join(<<w_he, w_go>>), Join(<<w_he, w_goes>>)>>,
       <<Join(<<w_she, w_go>>), Join(<<w_she, w_goes>>)>>,
       <<Join(<<w_i, w_is>>), Join(<<w_I, w_am>>)>>,
       <<Join(<<w_she, w_dont>>), Join(<<w_she, w_doesnt>>)>>,
       <<Join(<<w_he, w_dont>>), Join(<<w_he, w_doesnt>>)>> >>

RECURSIVE ApplyCorrections(_, _)
\* the loop over corrections.items(), from entry k on
ApplyCorrections(t, k) ==
    IF k > Len(Corrections) THEN t
    ELSE CHOOSE out \in {ApplyCorrections(c, k + 1) :
                            c \in {ReSub(Corrections[k][1], Corrections[k][2], t)}} : TRUE

\* the responses _rule_based_correction can return: one for each phrase
\* random.choice can draw when the text shows no basic error
RuleBasedCorrection(t, diff) ==
    IF ~HasErrors(t)
    THEN {CreateResponse(t, t, e, 90, "correct", diff) : e \in CorrectExplanations(diff)}
    ELSE {CreateResponse(t, ApplyCorrections(t, 1), "Applied basic grammar rules.",
                         70, "corrected", diff)}

(***************************************************************************)
(* Requests.                                                               *)
(***************************************************************************)
MaxFill == 5

\* one-letter filler words, none of them a word of the pattern tables
FillLetters == <<"a","b","c","d","e","f","g","h">>
Fill(k) == [j \in 1..k |-> <<FillLetters[j]>>]

Difficulties == {"easy", "intermediate", "advanced", "expert"}

\* CorrectionRequest.difficulty: "intermediate" when the body omits it
Omitted == "<omitted>"
RequestDifficulty(d) == IF d = Omitted THEN "intermediate" ELSE d

Subjects == {w_She, w_he, w_it, w_I, w_we}
Verbs == {w_dont, w_doesnt, w_do, w_does, w_go, w_goes, w_is, w_am}

ShortTexts == {<<>>, <<" ">>, <<"a">>, <<" ","a","\t">>, <<"o","k">>}
Sentences == {Join(<<s, v>>) : s \in Subjects, v \in Verbs}
LongTexts ==
    {Join(<<w_we, w_go>> \o Fill(k)) : k \in 1..MaxFill}
        \cup {Join(<<w_she, w_do>> \o Fill(k)) : k \in 1..MaxFill}
OtherTexts ==
    {Join(<<w_She, w_dont, w_like, w_it>>), Join(<<w_She, w_doesnt, w_like, w_it>>),
     Join(<<w_I, w_am, w_happy>>), Join(<<w_Im, w_happy>>),
     Join(<<w_we, w_do, w_not, w_go>>), Join(<<w_go, w_we>>),
     Join(<<w_he, w_go, w_it, w_do>>), Join(<<w_he, w_goes, w_it, w_does>>),
     <<" ">> \o Join(<<w_we, w_go>>), Join(<<w_we, w_go>>) \o <<"!">>,
     <<"a","_","b">>, <<"a","b">>}

RequestTexts == ShortTexts \cup Sentences \cup LongTexts \cup OtherTexts

\* what the pipeline can generate for text t: t itself, re-cased, re-punctuated
\* or padded, or another sentence
OracleOutputs(t) ==
    {t, Lower(t), t \o <<".">>, <<" ">> \o t \o <<"\n">>, <<>>}
        \cup Sentences \cup LongTexts \cup OtherTexts
        \cup {Join(<<w_she, w_do, w_she, w_does>> \o Fill(4))}

Requests == {1, 2}

(***************************************************************************)
(* correct_grammar, one step at a time, for request r.                     *)
(***************************************************************************)
Go(r, to) ==
    /\ pc' = [pc EXCEPT ![r] = to]
    /\ trace' = [trace EXCEPT ![r] = Append(@, to)]

Respond(r, resp) == response' = [response EXCEPT ![r] = Append(@, resp)]

\* the input guard
Start(r) ==
    /\ pc[r] = "START"
    /\ Go(r, IF TooShort(text[r]) THEN "UNSURE_SHORT" ELSE "ORACLE_CALL")
    /\ UNCHANGED <<text, difficulty, result, corrected, explanation, response, oracleCalls>>

UnsureShort(r) ==
    /\ pc[r] = "UNSURE_SHORT"
    /\ Respond(r, CreateResponse(text[r], text[r], "Please enter a longer sentence.",
                                 10, "unsure", difficulty[r]))
    /\ Go(r, "END")
    /\ UNCHANGED <<text, difficulty, result, corrected, explanation, oracleCalls>>

\* self.corrector(...) raises
OracleRaises(r) ==
    /\ pc[r] = "ORACLE_CALL"
    /\ oracleCalls' = [oracleCalls EXCEPT ![r] = @ + 1]
    /\ Go(r, "ORACLE_FAILS")
    /\ UNCHANGED <<text, difficulty, result, corrected, explanation, response>>

\* self.corrector(...) returns one generated text
OracleReturns(r) ==
    /\ pc[r] = "ORACLE_CALL"
    /\ oracleCalls' = [oracleCalls EXCEPT ![r] = @ + 1]
    /\ \E generated \in OracleOutputs(text[r]) :
          result' = [result EXCEPT ![r] = generated]
    /\ Go(r, "ORACLE_SUCCEEDS")
    /\ UNCHANGED <<text, difficulty, corrected, explanation, response>>

\* OracleFails calling the oracle once more before it falls back
OracleFailsRetry(r) ==
    /\ pc[r] = "ORACLE_FAILS"
    /\ Go(r, IF oracleCalls[r] < 2 THEN "ORACLE_CALL" ELSE "RULE_BASED_PATH")
    /\ UNCHANGED <<text, difficulty, result, corrected, explanation, response, oracleCalls>>

\* except Exception
OracleFails(r) ==
    /\ pc[r] = "ORACLE_FAILS"
    /\ Go(r, "RULE_BASED_PATH")
    /\ UNCHANGED <<text, difficulty, result, corrected, explanation, response, oracleCalls>>

RuleBasedPath(r) ==
    /\ pc[r] = "RULE_BASED_PATH"
    /\ \E resp \in RuleBasedCorrection(text[r], difficulty[r]) : Respond(r, resp)
    /\ Go(r, "END")
    /\ UNCHANGED <<text, difficulty, result, corrected, explanation, oracleCalls>>

\* corrected = result[0]['generated_text'].strip()
OracleSucceeds(r) ==
    /\ pc[r] = "ORACLE_SUCCEEDS"
    /\ corrected' = [corrected EXCEPT ![r] = Strip(result[r])]
    /\ Go(r, "CLASSIFY_CORRECTNESS")
    /\ UNCHANGED <<text, difficulty, result, explanation, response, oracleCalls>>

ClassifyCorrectness(r) ==
    /\ pc[r] = "CLASSIFY_CORRECTNESS"
    /\ Go(r, IF IsGrammarCorrect(text[r], corrected[r])
             THEN "ALREADY_CORRECT" ELSE "GENUINE_CORRECTION")
    /\ UNCHANGED <<text, difficulty, result, corrected, explanation, response, oracleCalls>>

AlreadyCorrect(r) ==
    /\ pc[r] = "ALREADY_CORRECT"
    /\ \E e \in CorrectExplanations(difficulty[r]) :
          /\ explanation' = [explanation EXCEPT ![r] = e]
          /\ Respond(r, CreateResponse(text[r], text[r], e, 95, "correct", difficulty[r]))
    /\ Go(r, "END")
    /\ UNCHANGED <<text, difficulty, result, corrected, oracleCalls>>

GenuineCorrection(r) ==
    /\ pc[r] = "GENUINE_CORRECTION"
    /\ Go(r, "EXPLAIN")
    /\ UNCHANGED <<text, difficulty, result, corrected, explanation, response, oracleCalls>>

Explain(r) ==
    /\ pc[r] = "EXPLAIN"
    /\ explanation' = [explanation EXCEPT
                         ![r] = AccurateExplanation(text[r], corrected[r], difficulty[r])]
    /\ Go(r, "TIER_SHAPE")
    /\ UNCHANGED <<text, difficulty, result, corrected, response, oracleCalls>>

\* the branch on difficulty that ends correct_grammar
TierResponse(original, corr, expl, diff) ==
    IF diff = "easy" THEN EasyMode(original, corr, expl)
    ELSE IF diff = "advanced" THEN AdvancedMode(original, corr, expl)
    ELSE IntermediateMode(original, corr, expl)

TierShape(r) ==
    /\ pc[r] = "TIER_SHAPE"
    /\ Respond(r, TierResponse(text[r], corrected[r], explanation[r], difficulty[r]))
    /\ Go(r, "END")
    /\ UNCHANGED <<text, difficulty, result, corrected, explanation, oracleCalls>>

Step(r) ==
    \/ Start(r)
    \/ UnsureShort(r)
    \/ OracleRaises(r)
    \/ OracleReturns(r)
    \/ OracleFails(r)
    \/ RuleBasedPath(r)
    \/ OracleSucceeds(r)
    \/ ClassifyCorrectness(r)
    \/ AlreadyCorrect(r)
    \/ GenuineCorrection(r)
    \/ Explain(r)
    \/ TierShape(r)

\* one request to POST /correct; the second request slot stays unused
Init ==
    /\ \E t \in RequestTexts : text = [r \in Requests |-> IF r = 1 THEN t ELSE <<>>]
    /\ \E d \in Difficulties \cup {Omitted} :
          difficulty = [r \in Requests |-> RequestDifficulty(IF r = 1 THEN d ELSE Omitted)]
    /\ pc = [r \in Requests |-> IF r = 1 THEN "START" ELSE "UNUSED"]
    /\ result = [r \in Requests |-> <<>>]
    /\ corrected = [r \in Requests |-> <<>>]
    /\ explanation = [r \in Requests |-> ""]
    /\ response = [r \in Requests |-> <<>>]
    /\ oracleCalls = [r \in Requests |-> 0]
    /\ trace = [r \in Requests |-> <<pc[r]>>]

Next == \E r \in Requests : Step(r)

Spec == Init /\ [][Next]_vars

\* correct_grammar is a synchronous call: a request that can take a step takes it
LiveSpec == Spec /\ WF_vars(Next)

(***************************************************************************)
(* Two requests served while the pipeline is failing.                      *)
(***************************************************************************)
PairTexts ==
    {<<"a">>, Join(<<w_we, w_go>>), Join(<<w_She, w_dont, w_like, w_it>>),
     Join(<<w_it, w_do>>), Join(<<w_I, w_is>>), Join(<<w_he, w_goes>>)}

PairInit ==
    /\ text \in [Requests -> PairTexts]
    /\ difficulty \in [Requests -> Difficulties]
    /\ pc = [r \in Requests |-> "START"]
    /\ result = [r \in Requests |-> <<>>]
    /\ corrected = [r \in Requests |-> <<>>]
    /\ explanation = [r \in Requests |-> ""]
    /\ response = [r \in Requests |-> <<>>]
    /\ oracleCalls = [r \in Requests |-> 0]
    /\ trace = [r \in Requests |-> <<pc[r]>>]

PairNext ==
    \E r \in Requests :
        \/ Start(r)
        \/ UnsureShort(r)
        \/ OracleRaises(r)
        \/ OracleFails(r)
        \/ RuleBasedPath(r)

PairSpec == PairInit /\ [][PairNext]_vars

(***************************************************************************)
(* Properties.                                                             *)
(***************************************************************************)
Done(r) == pc[r] = "END" /\ Len(response[r]) >= 1
Visited(r, at) == \E i \in DOMAIN trace[r] : trace[r][i] = at
Resp(r) == response[r][1]

\* the four error signatures, each written out as its literal alternatives
SignaturePatterns ==
    {Join(<<subj, verb>>) : subj \in {w_she, w_he, w_it}, verb \in {w_dont, w_do, w_go}}
        \cup {Join(<<w_i, w_is>>)}
MatchesSignature(t) == \E low \in {Lower(t)} : \E p \in SignaturePatterns : SearchB(p, low)

\* C1: a request whose oracle call raised still gets its one response, the
\* rule-based one: "correct" at 0.9 with the text unchanged when no error
\* signature matches the lower-cased text, "corrected" at 0.7 with the
\* explanation "Applied basic grammar rules." when one does; and the
\* rule-based path always has a response to return.
C1_OracleFailureFallsBack ==
    \A r \in Requests :
        /\ pc[r] = "RULE_BASED_PATH" =>
              /\ Visited(r, "ORACLE_FAILS")
              /\ RuleBasedCorrection(text[r], difficulty[r]) # {}
        /\ (pc[r] = "END" /\ Visited(r, "ORACLE_FAILS")) =>
              /\ Len(response[r]) = 1
              /\ IF MatchesSignature(text[r])
                 THEN /\ Resp(r).status = "corrected"
                      /\ Resp(r).confidence = 70
                      /\ Resp(r).explanation = "Applied basic grammar rules."
                 ELSE /\ Resp(r).status = "correct"
                      /\ Resp(r).confidence = 90
                      /\ Resp(r).corrected_text = Resp(r).original_text
                      /\ Resp(r).original_text = text[r]

C1_Witness ==
    \E r \in Requests :
        /\ Done(r) /\ Visited(r, "ORACLE_FAILS")
        /\ text[r] = Join(<<w_She, w_dont, w_like, w_it>>)
        /\ Resp(r).status = "corrected"
        /\ Resp(r).corrected_text = Join(<<w_she, w_doesnt, w_like, w_it>>)

\* C2: a text whose trimmed length is below 2 is answered "unsure" at 0.1
\* with corrected_text the untrimmed input, whatever the difficulty, and the
\* oracle is never called for it.
C2_ShortInputUnsure ==
    \A r \in Requests :
        (pc[r] # "UNUSED" /\ Len(Strip(text[r])) < 2) =>
            /\ oracleCalls[r] = 0
            /\ ~Visited(r, "ORACLE_CALL")
            /\ pc[r] = "END" =>
                  /\ Len(response[r]) = 1
                  /\ Resp(r).status = "unsure"
                  /\ Resp(r).confidence = 10
                  /\ Resp(r).corrected_text = text[r]
                  /\ Resp(r).original_text = text[r]

C2_Witness ==
    \E r \in Requests :
        /\ Done(r)
        /\ text[r] = <<" ","a","\t">>
        /\ Resp(r).status = "unsure"
        /\ Resp(r).corrected_text = <<" ","a","\t">>

\* the four paths of the request state machine
Paths ==
    {<<"START", "UNSURE_SHORT", "END">>,
     <<"START", "ORACLE_CALL", "ORACLE_FAILS", "RULE_BASED_PATH", "END">>,
     <<"START", "ORACLE_CALL", "ORACLE_SUCCEEDS", "CLASSIFY_CORRECTNESS",
       "ALREADY_CORRECT", "END">>,
     <<"START", "ORACLE_CALL", "ORACLE_SUCCEEDS", "CLASSIFY_CORRECTNESS",
       "GENUINE_CORRECTION", "EXPLAIN", "TIER_SHAPE", "END">>}
IsPrefix(s, t) == Len(s) <= Len(t) /\ SubSeq(t, 1, Len(s)) = s

OnOnePath(r) ==
    /\ \E p \in Paths : IsPrefix(trace[r], p)
    /\ oracleCalls[r] <= 1
    /\ oracleCalls[r] = (IF Visited(r, "ORACLE_FAILS") \/ Visited(r, "ORACLE_SUCCEEDS")
                         THEN 1 ELSE 0)
    /\ Visited(r, "RULE_BASED_PATH") => Visited(r, "ORACLE_FAILS")
    /\ Len(response[r]) = (IF pc[r] = "END" THEN 1 ELSE 0)

\* C3: every request walks one path of the state machine, calls the oracle
\* at most once, enters the rule-based path only after the oracle call has
\* failed, has produced exactly one response when it is at END and none
\* before, and reaches END.
C3_OnePathToEnd ==
    /\ [](\A r \in Requests : pc[r] # "UNUSED" => OnOnePath(r))
    /\ <>(pc[1] = "END")

C3_Witness ==
    \E r \in Requests :
        /\ Done(r)
        /\ trace[r] = <<"START", "ORACLE_CALL", "ORACLE_SUCCEEDS", "CLASSIFY_CORRECTNESS",
                        "GENUINE_CORRECTION", "EXPLAIN", "TIER_SHAPE", "END">>
        /\ oracleCalls[r] = 1
        /\ Len(response[r]) = 1

\* the formal/contraction pairs of rule (4)
ContractionPairs ==
    {<<Join(<<w_i, w_am>>), w_im>>, <<Join(<<w_it, w_is>>), w_its>>,
     <<Join(<<w_that, w_is>>), w_thats>>, <<Join(<<w_what, w_is>>), w_whats>>,
     <<Join(<<w_do, w_not>>), w_dont>>, <<Join(<<w_does, w_not>>), w_doesnt>>}

\* whether 100 * |A \cap B| / |A \cup B| > pct for the word sets of a and b
JaccardAbove(a, b, pct) ==
    \E A \in {WordSet(a)}, B \in {WordSet(b)} :
        /\ A \cup B # {}
        /\ 100 * Cardinality(A \cap B) > pct * Cardinality(A \cup B)

NoChangeNeeded(o, c) ==
    \/ Lower(o) = Lower(c)
    \/ RemovePunct(Lower(o)) = RemovePunct(Lower(c))
    \/ JaccardAbove(o, c, 90)
    \/ \E pr \in ContractionPairs :
          \/ Search(pr[1], Lower(o)) /\ Search(pr[2], Lower(c))
          \/ Search(pr[2], Lower(o)) /\ Search(pr[1], Lower(c))

\* C4: after a successful oracle call the response is "correct" at 0.95
\* with the text unchanged exactly when the candidate meets one of the four
\* no-change rules; an oracle output equal to the input modulo case is
\* always answered "correct".
C4_ClassifiedCorrectIffRule ==
    \A r \in Requests :
        (Done(r) /\ Visited(r, "ORACLE_SUCCEEDS")) =>
            /\ (/\ Resp(r).status = "correct"
                /\ Resp(r).confidence = 95
                /\ Resp(r).corrected_text = Resp(r).original_text)
                  <=> NoChangeNeeded(text[r], corrected[r])
            /\ Lower(result[r]) = Lower(text[r]) => Resp(r).status = "correct"

C4_Witness ==
    \E r \in Requests :
        /\ Done(r) /\ Visited(r, "ORACLE_SUCCEEDS")
        /\ text[r] = Join(<<w_I, w_am, w_happy>>)
        /\ corrected[r] = Join(<<w_Im, w_happy>>)
        /\ Resp(r).status = "correct"
        /\ Resp(r).confidence = 95

\* C5: a genuine correction is shaped by the tier: easy keeps the original
\* ("correct", 0.8) when the similarity is above 0.85 and returns the
\* candidate at 0.7 otherwise; advanced returns the candidate at 0.85; any
\* other difficulty returns the candidate at 0.8.
C5_TierShaping ==
    \A r \in Requests :
        (Done(r) /\ Visited(r, "GENUINE_CORRECTION")) =>
            LET resp == Resp(r)
                applied(conf) == /\ resp.corrected_text = corrected[r]
                                 /\ resp.confidence = conf
                                 /\ resp.status = "corrected"
            IN  IF difficulty[r] = "easy"
                THEN IF JaccardAbove(text[r], corrected[r], 85)
                     THEN /\ resp.corrected_text = text[r]
                          /\ resp.confidence = 80
                          /\ resp.status = "correct"
                     ELSE applied(70)
                ELSE IF difficulty[r] = "advanced" THEN applied(85)
                ELSE applied(80)

C5_Witness ==
    \E r \in Requests :
        /\ Done(r) /\ Visited(r, "GENUINE_CORRECTION")
        /\ difficulty[r] = "easy"
        /\ JaccardAbove(text[r], corrected[r], 85)
        /\ Resp(r).status = "correct"
        /\ Resp(r).confidence = 80

\* C6: difficulty_used is the difficulty of the request, on every path and
\* for every difficulty string.
C6_DifficultyEchoed ==
    \A r \in Requests : Done(r) => Resp(r).difficulty_used = difficulty[r]

\* C8: every response is well-formed: a status of the enumeration,
\* is_correct exactly for "correct", no suggestions, the request text as
\* original_text, and one of the six fixed confidences.
C8_WellFormed ==
    \A r \in Requests :
        \A i \in DOMAIN response[r] :
            LET resp == response[r][i]
            IN  /\ resp.status \in {"correct", "corrected", "unsure"}
                /\ resp.is_correct <=> (resp.status = "correct")
                /\ resp.suggestions = <<>>
                /\ resp.original_text = text[r]
                /\ resp.confidence \in {10, 70, 80, 85, 90, 95}

C8_Witness ==
    \E r \in Requests :
        /\ Done(r)
        /\ Resp(r).status = "corrected"
        /\ ~Resp(r).is_correct
        /\ Resp(r).confidence = 85

\* C10: corrected_text differs from original_text exactly when the status
\* is "corrected".
C10_ChangedIffCorrected ==
    \A r \in Requests :
        Done(r) => (Resp(r).corrected_text # Resp(r).original_text
                        <=> Resp(r).status = "corrected")

FallbackDone(r) == Done(r) /\ Visited(r, "RULE_BASED_PATH")
SameRequest == text[1] = text[2] /\ difficulty[1] = difficulty[2]

ThirdPersons == {w_she, w_he, w_it}
SignatureTable ==
    << [wrong |-> {Join(<<p, w_dont>>) : p \in ThirdPersons},
        right |-> {Join(<<p, w_doesnt>>) : p \in ThirdPersons},
        phrases |-> <<"Fixed the verb for clearer communication!",
                      "Corrected third-person singular verb form.",
                      "Use 'doesn't' with he/she/it, not 'don't'.">>],
       [wrong |-> {Join(<<p, w_do>>) : p \in ThirdPersons},
        right |-> {Join(<<p, w_does>>) : p \in ThirdPersons},
        phrases |-> <<"Made the verb match the subject!",
                      "Corrected subject-verb agreement.",
                      "Use 'does' with he/she/it, not 'do'.">>],
       [wrong |-> {Join(<<p, w_go>>) : p \in ThirdPersons},
        right |-> {Join(<<p, w_goes>>) : p \in ThirdPersons},
        phrases |-> <<"Fixed the verb ending!",
                      "Corrected third-person singular present tense.",
                      "Use 'goes' with he/she/it, not 'go'.">>],
       [wrong |-> {Join(<<w_i, w_is>>)},
        right |-> {w_am},
        phrases |-> <<"Fixed the verb for 'I'!",
                      "Corrected first-person verb conjugation.",
                      "Use 'am' with 'I', not 'is'.">>] >>
GenericPhrases ==
    <<"Improved the sentence for better understanding!",
      "Enhanced grammar and sentence structure.",
      "Corrected grammatical errors.">>

TierIndex(diff) == IF diff = "easy" THEN 1 ELSE IF diff = "advanced" THEN 2 ELSE 3

SignatureHolds(k, o, c) ==
    \E lo \in {Lower(o)}, lc \in {Lower(c)} :
        /\ \E p \in SignatureTable[k].wrong : SearchB(p, lo)
        /\ \E p \in SignatureTable[k].right :
              IF k = Len(SignatureTable) THEN Search(p, lc) ELSE SearchB(p, lc)

ExpectedExplanation(o, c, diff) ==
    LET hold == {k \in DOMAIN SignatureTable : SignatureHolds(k, o, c)}
    IN  IF hold = {} THEN GenericPhrases[TierIndex(diff)]
        ELSE SignatureTable[CHOOSE k \in hold : \A j \in hold : k <= j].phrases[TierIndex(diff)]

\* C9 as stated: the explanation of a genuine correction is that of the
\* first signature that matches original and candidate, phrased for the
\* tier, or the tier's generic phrase when none matches.
C9_ExplanationOfFirstSignature ==
    \A r \in Requests :
        (Done(r) /\ Visited(r, "GENUINE_CORRECTION")) =>
            Resp(r).explanation = ExpectedExplanation(text[r], corrected[r], difficulty[r])

\* C9 as amended: the explanation computed for a genuine correction is that
\* of the first matching signature (else the generic phrase), and the
\* response carries it whenever its status is "corrected"; a response that
\* easy mode turned into "correct" carries "Looks good for conversation!"
\* instead.  "She don't like it" corrected to "She doesn't like it" is a
\* genuine correction answered with the "doesn't" explanation.
C9_ExplanationUnlessDowngraded ==
    \A r \in Requests :
        /\ (Done(r) /\ Visited(r, "GENUINE_CORRECTION")) =>
              LET expected == ExpectedExplanation(text[r], corrected[r], difficulty[r])
              IN  /\ explanation[r] = expected
                  /\ IF Resp(r).status = "corrected"
                     THEN Resp(r).explanation = expected
                     ELSE /\ difficulty[r] = "easy"
                          /\ JaccardAbove(text[r], corrected[r], 85)
                          /\ Resp(r).explanation = "Looks good for conversation!"
        /\ (/\ Done(r) /\ Visited(r, "ORACLE_SUCCEEDS")
            /\ text[r] = Join(<<w_She, w_dont, w_like, w_it>>)
            /\ corrected[r] = Join(<<w_She, w_doesnt, w_like, w_it>>)) =>
              /\ Visited(r, "GENUINE_CORRECTION")
              /\ Resp(r).status = "corrected"
              /\ Resp(r).explanation = SignatureTable[1].phrases[TierIndex(difficulty[r])]

C9_Witness ==
    \E r \in Requests :
        /\ Done(r) /\ Visited(r, "GENUINE_CORRECTION")
        /\ text[r] = Join(<<w_he, w_go, w_it, w_do>>)
        /\ corrected[r] = Join(<<w_he, w_goes, w_it, w_does>>)
        /\ difficulty[r] = "expert"
        /\ Resp(r).explanation = "Use 'does' with he/she/it, not 'do'."

====
